---- MODULE Spec2Model ----
(***************************************************************************)
(* Model of walkie-ai's microphone capture pipeline                        *)
(* (src/src/interface/asr/microphone.py): the Microphone object, its VAD   *)
(* iterator, and one record_until_silence call seen as two threads, the    *)
(* controlling thread (pc) and the audio-callback thread (cbpc).           *)
(*                                                                         *)
(* Time is counted in polling intervals (one sd.sleep(10)); probabilities  *)
(* in tenths; a chunk is identified by its delivery index and always has   *)
(* chunk_size samples (blocksize of the stream).                           *)
(*                                                                         *)
(* Further specifications share the module: LiveSpec is Spec with the      *)
(* fairness of the two threads, FnSpec applies the pure functions of       *)
(* microphone.py (__init__'s chunk size, _resample,                        *)
(* _resample_to_vad_chunk, record_seconds) to bounded inputs, MemSpec      *)
(* follows an AgentMemory (src/src/agent/memory.py), StateSpec an          *)
(* AgentState (src/src/agent/state.py) and AgentSpec a WalkieAgent         *)
(* (src/src/agent/core.py) behind the MCP server's call_tool               *)
(* (src/src/agent/mcp_server.py). Each leaves the other parts' variables   *)
(* at their parked values.                                                 *)
(***************************************************************************)
EXTENDS Integers, Sequences, FiniteSets, TLC

\* ---------------------------------------------------------------- bounds
MaxChunks == 5          \* chunks the device delivers during one call
MaxClock == 2           \* polling intervals the clock is followed for
MinSilenceMs == 64      \* min_silence_duration_ms the Microphone is built with
MaxAdds == 3            \* add_interaction calls followed between two clear()
MaxCtxOps == 3          \* set_context / clear_context / clear calls followed
MaxTasks == 7           \* interactions an agent's history is followed for

\* ------------------------------------------------------- program constants
VAD_SAMPLE_RATE == 16000
VAD_CHUNK_SAMPLES == 512
DefaultThreshold == 5   \* threshold = 0.5, in tenths

DeviceRates == {16000, 44100, 48000}
\* threshold arguments a Microphone is built with: the default and one above 1
Thresholds == {DefaultThreshold, 2 * DefaultThreshold + 1}
Probs == {0, 5}         \* speech probabilities the model answers: below, at threshold
Timeouts == 0..MaxClock \* timeout argument, in polling intervals

\* duration of one VAD frame in milliseconds
FrameMs == (VAD_CHUNK_SAMPLES * 1000) \div VAD_SAMPLE_RATE

VARIABLES
    cfg,            \* Microphone fields fixed by __init__
    vad,            \* self.vad_iterator: the VADIterator's fields
    pc,             \* position of the controlling thread
    cbpc,           \* position of the audio-callback thread
    stream,         \* "none" | "active" | "aborted" | "closed"
    timeout,        \* argument of the current call
    elapsed,        \* time.time() - start_time, in polling intervals
    audio_chunks,   \* the accumulation buffer (chunk ids)
    speech_started,
    speech_ended,
    chunk,          \* the chunk the running callback invocation holds
    result,         \* VAD result the running callback invocation holds
    raising,        \* an exception is propagating out of the with-body
    outcome,        \* "none" | "returned" | "raised" : how the last call ended
    retval,         \* value returned by the last call
    \* ---- history variables (not program state)
    nDelivered,     \* callback invocations in this call
    beforeEnd,      \* ids of chunks delivered while speech_ended was false
    fed,            \* probabilities of the frames the VAD saw in this call
    nStart, nEnd,   \* Start / End results observed by the callback in this call
    closeCount,     \* times the stream of this call was closed
    closedBy,       \* threads that closed it
    nSleeps,        \* sd.sleep calls of this call
    exitReason,     \* why the polling loop ended
    prevVad,        \* the engine state the call found before resetting it
    sinceReset,     \* frames processed since the last reset (capped at 2)
    lastEvent,      \* last Start/End since the last reset
    prevEvent,      \* the Start/End before that one
    lastProb,       \* probability of the last processed frame
    lastResult,     \* result of the last processed frame
    speechRet       \* <<what is_speech returned>>, <<>> once a recording began

\* the pure functions of microphone.py, applied to one drawn input
VARIABLES
    fnOp,           \* the function applied, "none" before
    fnIn,           \* its drawn input
    fnOut           \* what it returned, or Raised

\* AgentMemory (src/src/agent/memory.py)
VARIABLES
    max_history,
    history,        \* self.history: interaction ids, oldest first
    context,        \* self.context: key -> value, Absent when not a key
    memOp,          \* the last AgentMemory method called
    got,            \* what the last get_context returned
    \* ---- history variables
    added,          \* every interaction added since construction or clear()
    ctxLog          \* the set_context / clear calls made, in order

\* AgentState (src/src/agent/state.py)
VARIABLES
    status,
    last_error,
    current_task,
    stOp,           \* the last AgentState method called
    \* ---- history variables
    stPrev          \* status before that call

\* WalkieAgent (src/src/agent/core.py) behind the MCP server
\* (src/src/agent/mcp_server.py); its memory and state are the variables above
VARIABLES
    _agent,             \* the server's global: None until get_agent made it
    last_audio_output,  \* AgentState.last_audio_output
    agOp,               \* the last call: how it came, tool name, arguments, and
                        \* what the model, the tools and the files did in it
    agOut,              \* what that call returned, or that it raised
    passed              \* chat history the last execute_task gave the model

micVars == <<cfg, vad, pc, cbpc, stream, timeout, elapsed, audio_chunks,
             speech_started, speech_ended, chunk, result, raising, outcome,
             retval, nDelivered, beforeEnd, fed, nStart, nEnd, closeCount,
             closedBy, nSleeps, exitReason, prevVad, sinceReset, lastEvent,
             prevEvent, lastProb, lastResult, speechRet>>
fnVars == <<fnOp, fnIn, fnOut>>
memVars == <<max_history, history, context, memOp, got, added, ctxLog>>
stVars == <<status, last_error, current_task, stOp, stPrev>>
agVars == <<_agent, last_audio_output, agOp, agOut, passed>>

vars == <<micVars, fnVars, memVars, stVars, agVars>>

\* what a step of the recording threads leaves alone
others == <<speechRet, fnVars, memVars, stVars, agVars>>

\* a dictionary key that is not set; None
Absent == "absent"
None == "None"

\* the variables of the parts a specification does not exercise
FnParked == fnOp = "parked" /\ fnIn = None /\ fnOut = None
MemParked ==
    /\ max_history = 0 /\ history = <<>> /\ context = <<>>
    /\ memOp = "parked" /\ got = None /\ added = <<>> /\ ctxLog = <<>>
StParked ==
    /\ status = "parked" /\ last_error = None /\ current_task = None
    /\ stOp = <<"parked">> /\ stPrev = "parked"
AgParked ==
    /\ _agent = None /\ last_audio_output = None
    /\ agOp = [via |-> "parked", name |-> None, arguments |-> <<>>,
               env |-> None]
    /\ agOut = [raised |-> FALSE, value |-> 0, content |-> <<>>]
    /\ passed = <<>>

callVars == <<timeout, elapsed, audio_chunks, speech_started, speech_ended,
              raising, outcome, retval>>
cbVars == <<cbpc, chunk, result>>
callHist == <<nDelivered, beforeEnd, fed, nStart, nEnd, closeCount, closedBy,
              nSleeps, exitReason, prevVad>>
vadHist == <<sinceReset, lastEvent, prevEvent, lastProb, lastResult>>

Min(a, b) == IF a < b THEN a ELSE b

\* ------------------------------------------------------------- resampler
\* _resample: only the number of samples is modelled
ResampleLen(n, orig_sr, target_sr) ==
    IF orig_sr = target_sr THEN n ELSE (n * target_sr) \div orig_sr

\* __init__: self.chunk_size
ChunkSize(rate) == (VAD_CHUNK_SAMPLES * rate) \div VAD_SAMPLE_RATE

\* the value record_until_silence returns for a buffer: 16-bit PCM bytes
EmptyBytes == [nbytes |-> 0, from |-> <<>>]
Output(chunks, rate) ==
    IF chunks # <<>>
    THEN [nbytes |-> 2 * ResampleLen(Len(chunks) * ChunkSize(rate), rate,
                                     VAD_SAMPLE_RATE),
          from |-> chunks]
    ELSE EmptyBytes

\* ------------------------------------------------------------ VAD engine
\* VADIterator(model, threshold, min_silence_duration_ms, speech_pad_ms):
\* a newly constructed iterator is not triggered and has counted no silence
VADIterator(threshold, min_silence_duration_ms) ==
    [threshold |-> threshold,
     min_silence_ms |-> min_silence_duration_ms,
     triggered |-> FALSE,
     silence_ms |-> 0]

\* the silence of the frame being processed completes the minimum silence
SilenceDone(v) == v.silence_ms + FrameMs >= v.min_silence_ms

\* VADIterator.__call__: the event for a frame of probability p
VadEvent(v, p) ==
    IF ~v.triggered /\ p >= v.threshold THEN "start"
    ELSE IF v.triggered /\ p < v.threshold /\ SilenceDone(v) THEN "end"
    ELSE "none"

\* VADIterator.__call__: the engine state after that frame
VadNext(v, p) ==
    IF ~v.triggered
    THEN IF p >= v.threshold
         THEN [v EXCEPT !.triggered = TRUE, !.silence_ms = 0]
         ELSE v
    ELSE IF p >= v.threshold
         THEN [v EXCEPT !.silence_ms = 0]
         ELSE IF SilenceDone(v)
              THEN [v EXCEPT !.triggered = FALSE, !.silence_ms = 0]
              ELSE [v EXCEPT !.silence_ms = v.silence_ms + FrameMs]

\* history bookkeeping of one processed frame
Processed(p) ==
    /\ sinceReset' = Min(sinceReset + 1, 2)
    /\ lastProb' = p
    /\ lastResult' = VadEvent(vad, p)
    /\ IF VadEvent(vad, p) = "none"
       THEN UNCHANGED <<lastEvent, prevEvent>>
       ELSE lastEvent' = VadEvent(vad, p) /\ prevEvent' = lastEvent

\* (variant) the old iterator is kept as it is
_reset_vad_noop == vad

\* (variant) the new iterator inherits the old one's triggered flag
_reset_vad_keeps_triggered ==
    [VADIterator(cfg.threshold, cfg.min_silence_duration_ms)
        EXCEPT !.triggered = vad.triggered]

\* (variant) threshold and min_silence_duration_ms passed in each other's place
_reset_vad_swapped == VADIterator(cfg.min_silence_duration_ms, cfg.threshold)

\* (variant) min_silence_duration_ms is not passed on
_reset_vad_no_silence == VADIterator(cfg.threshold, 0)

\* Microphone._reset_vad: a new VADIterator replaces the old one
_reset_vad == VADIterator(cfg.threshold, cfg.min_silence_duration_ms)

\* ------------------------------------------------------------------ Init
MicInit ==
    /\ cfg \in [threshold : Thresholds,
                min_silence_duration_ms : {MinSilenceMs},
                device_sample_rate : DeviceRates]
    /\ vad = VADIterator(cfg.threshold, cfg.min_silence_duration_ms)
    /\ pc = "idle"
    /\ cbpc = "idle"
    /\ stream = "none"
    /\ timeout = 0
    /\ elapsed = 0
    /\ audio_chunks = <<>>
    /\ speech_started = FALSE
    /\ speech_ended = FALSE
    /\ chunk = 0
    /\ result = "none"
    /\ raising = FALSE
    /\ outcome = "none"
    /\ retval = EmptyBytes
    /\ nDelivered = 0
    /\ beforeEnd = <<>>
    /\ fed = <<>>
    /\ nStart = 0
    /\ nEnd = 0
    /\ closeCount = 0
    /\ closedBy = {}
    /\ nSleeps = 0
    /\ exitReason = "none"
    /\ prevVad = vad
    /\ sinceReset = 0
    /\ lastEvent = "none"
    /\ prevEvent = "none"
    /\ lastProb = 0
    /\ lastResult = "none"
    /\ speechRet = <<>>

\* a constructed Microphone that is never used
MicParked ==
    /\ MicInit
    /\ cfg.threshold = DefaultThreshold
    /\ cfg.device_sample_rate = VAD_SAMPLE_RATE

Init ==
    /\ MicInit
    /\ FnParked
    /\ MemParked
    /\ StParked
    /\ AgParked

\* ---------------------------------------------------- controlling thread
\* (variant) the loop condition with <= in place of <
LoopCondition_le == ~speech_ended /\ elapsed <= timeout

\* (variant) the loop waits for the end of speech only
LoopCondition_no_timeout == ~speech_ended

\* while not speech_ended and (time.time() - start_time) < timeout
LoopCondition == ~speech_ended /\ elapsed < timeout

\* (variant) the with-block releases the stream on the normal path only
StreamAfterExit_leak(exc) == IF exc THEN stream ELSE "closed"

\* leaving the with-block closes the stream, exception or not
StreamAfterExit(exc) == "closed"

\* (variant) audio is returned only when speech was detected
Combine_needs_speech ==
    IF speech_started THEN Output(audio_chunks, cfg.device_sample_rate)
    ELSE EmptyBytes

\* if audio_chunks: concatenate, resample, tobytes; else b""
Combine == Output(audio_chunks, cfg.device_sample_rate)

\* record_until_silence, up to the with statement: reset, fresh locals
RecordUntilSilence ==
    /\ pc = "idle"
    /\ \E t \in Timeouts : timeout' = t
    /\ vad' = _reset_vad
    /\ audio_chunks' = <<>>
    /\ speech_started' = FALSE
    /\ speech_ended' = FALSE
    /\ pc' = "open"
    /\ stream' = "none"
    /\ elapsed' = 0
    /\ raising' = FALSE
    /\ outcome' = "none"
    /\ retval' = EmptyBytes
    /\ nDelivered' = 0
    /\ beforeEnd' = <<>>
    /\ fed' = <<>>
    /\ nStart' = 0
    /\ nEnd' = 0
    /\ closeCount' = 0
    /\ closedBy' = {}
    /\ nSleeps' = 0
    /\ exitReason' = "none"
    /\ prevVad' = vad
    /\ sinceReset' = 0
    /\ lastEvent' = "none"
    /\ prevEvent' = "none"
    /\ lastProb' = 0
    /\ lastResult' = "none"
    /\ speechRet' = <<>>
    /\ UNCHANGED <<fnVars, memVars, stVars, agVars, cfg, cbVars>>

\* sd.InputStream(...).__enter__ : the stream is opened and started
OpenStream ==
    /\ pc = "open"
    /\ stream' = "active"
    /\ pc' = "start_time"
    /\ UNCHANGED <<others, cfg, vad, callVars, cbVars, callHist, vadHist>>

\* sd.InputStream(...) raises: nothing was opened, the error propagates
OpenFail ==
    /\ pc = "open"
    /\ pc' = "idle"
    /\ outcome' = "raised"
    /\ exitReason' = "open_failed"
    /\ UNCHANGED <<others, cfg, vad, stream, timeout, elapsed, audio_chunks,
                   speech_started, speech_ended, raising, retval, cbVars,
                   nDelivered, beforeEnd, fed, nStart, nEnd, closeCount,
                   closedBy, nSleeps, prevVad, vadHist>>

\* start_time = time.time()
StartTimer ==
    /\ pc = "start_time"
    /\ elapsed' = 0
    /\ pc' = "while"
    /\ UNCHANGED <<others, cfg, vad, stream, timeout, audio_chunks, speech_started,
                   speech_ended, raising, outcome, retval, cbVars, callHist,
                   vadHist>>

\* one evaluation of the while condition
LoopCheck ==
    /\ pc = "while"
    /\ IF LoopCondition
       THEN pc' = "sleep" /\ UNCHANGED exitReason
       ELSE /\ pc' = "exit"
            /\ exitReason' = IF speech_ended THEN "ended" ELSE "timeout"
    /\ UNCHANGED <<others, cfg, vad, stream, callVars, cbVars, nDelivered, beforeEnd,
                   fed, nStart, nEnd, closeCount, closedBy, nSleeps, prevVad,
                   vadHist>>

\* sd.sleep(10)
Sleep ==
    /\ pc = "sleep"
    /\ elapsed' = Min(elapsed + 1, MaxClock)
    /\ nSleeps' = Min(nSleeps + 1, MaxClock)
    /\ pc' = "while"
    /\ UNCHANGED <<others, cfg, vad, stream, timeout, audio_chunks, speech_started,
                   speech_ended, raising, outcome, retval, cbVars, nDelivered,
                   beforeEnd, fed, nStart, nEnd, closeCount, closedBy,
                   exitReason, prevVad, vadHist>>

\* an exception raised in the with-body while the thread waits
Interrupt ==
    /\ pc = "sleep"
    /\ raising' = TRUE
    /\ exitReason' = "error"
    /\ pc' = "exit"
    /\ UNCHANGED <<others, cfg, vad, stream, timeout, elapsed, audio_chunks,
                   speech_started, speech_ended, outcome, retval, cbVars,
                   nDelivered, beforeEnd, fed, nStart, nEnd, closeCount,
                   closedBy, nSleeps, prevVad, vadHist>>

\* the clock advances while the controlling thread is between two steps
Tick ==
    /\ pc \in {"while", "sleep"}
    /\ elapsed < MaxClock
    /\ elapsed' = elapsed + 1
    /\ UNCHANGED <<others, cfg, vad, pc, stream, timeout, audio_chunks, speech_started,
                   speech_ended, raising, outcome, retval, cbVars, callHist,
                   vadHist>>

\* InputStream.__exit__ : close the stream; a running callback finishes first
CloseStream ==
    /\ pc = "exit"
    /\ cbpc = "idle"
    /\ stream' = StreamAfterExit(raising)
    /\ IF StreamAfterExit(raising) = "closed"
       THEN /\ closeCount' = closeCount + 1
            /\ closedBy' = closedBy \cup {"controller"}
       ELSE UNCHANGED <<closeCount, closedBy>>
    /\ IF raising
       THEN pc' = "idle" /\ outcome' = "raised"
       ELSE pc' = "combine" /\ UNCHANGED outcome
    /\ UNCHANGED <<others, cfg, vad, timeout, elapsed, audio_chunks, speech_started,
                   speech_ended, raising, retval, cbVars, nDelivered,
                   beforeEnd, fed, nStart, nEnd, nSleeps, exitReason, prevVad,
                   vadHist>>

\* combine the chunks, resample to 16 kHz, return the bytes
Return ==
    /\ pc = "combine"
    /\ retval' = Combine
    /\ outcome' = "returned"
    /\ pc' = "idle"
    /\ UNCHANGED <<others, cfg, vad, stream, timeout, elapsed, audio_chunks,
                   speech_started, speech_ended, raising, cbVars, callHist,
                   vadHist>>

\* ------------------------------------------------------- callback thread
\* (variant) the callback never returns early
CallbackReturnsEarly_never == FALSE

\* if speech_ended: return
CallbackReturnsEarly == speech_ended

\* (variant) the buffer keeps only the newest chunk
AppendChunk_overwrite(buf, c) == <<c>>

\* (variant) the chunk is put in front of the buffer
AppendChunk_prepend(buf, c) == <<c>> \o buf

\* audio_chunks.append(chunk)
AppendChunk(buf, c) == Append(buf, c)

\* (variant) an "end" result is not recorded
EndedAfter_never(res) == speech_ended

\* if "end" in result: speech_ended = True
EndedAfter(res) == speech_ended \/ res = "end"

\* (variant) the flag is assigned from every result
StartedAfter_assigned(res) == res = "start"

\* if "start" in result: speech_started = True
StartedAfter(res) == speech_started \/ res = "start"

\* the device delivers a chunk: callback entry
CbEnter ==
    /\ stream = "active"
    /\ cbpc = "idle"
    /\ nDelivered < MaxChunks
    /\ nDelivered' = nDelivered + 1
    /\ IF CallbackReturnsEarly
       THEN UNCHANGED <<cbpc, chunk>>
       ELSE /\ cbpc' = "append"
            /\ chunk' = nDelivered + 1
    /\ beforeEnd' = IF speech_ended THEN beforeEnd
                    ELSE Append(beforeEnd, nDelivered + 1)
    /\ UNCHANGED <<others, cfg, vad, pc, stream, callVars, result, fed, nStart, nEnd,
                   closeCount, closedBy, nSleeps, exitReason, prevVad,
                   vadHist>>

\* chunk = indata[:, 0].copy(); audio_chunks.append(chunk)
CbAppend ==
    /\ cbpc = "append"
    /\ audio_chunks' = AppendChunk(audio_chunks, chunk)
    /\ cbpc' = "vad"
    /\ UNCHANGED <<others, cfg, vad, pc, stream, timeout, elapsed, speech_started,
                   speech_ended, raising, outcome, retval, chunk, result,
                   callHist, vadHist>>

\* result = self.vad_iterator(self._resample_to_vad_chunk(chunk))
CbVad ==
    /\ cbpc = "vad"
    /\ \E p \in Probs :
         /\ result' = VadEvent(vad, p)
         /\ vad' = VadNext(vad, p)
         /\ fed' = Append(fed, p)
         /\ Processed(p)
    /\ cbpc' = "flags"
    /\ UNCHANGED <<others, cfg, pc, stream, callVars, chunk, nDelivered, beforeEnd,
                   nStart, nEnd, closeCount, closedBy, nSleeps, exitReason,
                   prevVad>>

\* the VAD model raises inside the callback: the stream is aborted, the
\* callback is not invoked again, the controlling thread is not told
CbVadFail ==
    /\ cbpc = "vad"
    /\ stream' = "aborted"
    /\ cbpc' = "idle"
    /\ UNCHANGED <<others, cfg, vad, pc, callVars, chunk, result, callHist, vadHist>>

\* (variant) the callback closes the stream itself when it sees "end"
CbFlags_closes ==
    /\ cbpc = "flags"
    /\ speech_started' = StartedAfter(result)
    /\ speech_ended' = EndedAfter(result)
    /\ nStart' = nStart + (IF result = "start" THEN 1 ELSE 0)
    /\ nEnd' = nEnd + (IF result = "end" THEN 1 ELSE 0)
    /\ cbpc' = "idle"
    /\ IF result = "end"
       THEN /\ stream' = "closed"
            /\ closeCount' = closeCount + 1
            /\ closedBy' = closedBy \cup {"callback"}
       ELSE UNCHANGED <<stream, closeCount, closedBy>>
    /\ UNCHANGED <<others, cfg, vad, pc, timeout, elapsed, audio_chunks,
                   raising, outcome, retval, chunk, result, nDelivered,
                   beforeEnd, fed, nSleeps, exitReason, prevVad, vadHist>>

\* if result: "start" sets speech_started, "end" sets speech_ended
CbFlags ==
    /\ cbpc = "flags"
    /\ speech_started' = StartedAfter(result)
    /\ speech_ended' = EndedAfter(result)
    /\ nStart' = nStart + (IF result = "start" THEN 1 ELSE 0)
    /\ nEnd' = nEnd + (IF result = "end" THEN 1 ELSE 0)
    /\ cbpc' = "idle"
    /\ UNCHANGED <<others, cfg, vad, pc, stream, timeout, elapsed, audio_chunks,
                   raising, outcome, retval, chunk, result, nDelivered,
                   beforeEnd, fed, closeCount, closedBy, nSleeps, exitReason,
                   prevVad, vadHist>>

\* --------------------------------------------------------------- is_speech
\* (variant) any event of the engine counts as speech
IsSpeechReturn_any(res) == res # "none"

\* return result is not None and "start" in result
IsSpeechReturn(res) == res = "start"

\* is_speech(frame): one frame through the current engine, no reset
IsSpeech ==
    /\ pc = "idle"
    /\ \E p \in Probs :
         /\ vad' = VadNext(vad, p)
         /\ speechRet' = <<IsSpeechReturn(VadEvent(vad, p))>>
         /\ Processed(p)
    /\ UNCHANGED <<fnVars, memVars, stVars, agVars, cfg, pc, stream, callVars, cbVars,
                   callHist>>

Next ==
    \/ RecordUntilSilence
    \/ OpenStream
    \/ OpenFail
    \/ StartTimer
    \/ LoopCheck
    \/ Sleep
    \/ Interrupt
    \/ Tick
    \/ CloseStream
    \/ Return
    \/ CbEnter
    \/ CbAppend
    \/ CbVad
    \/ CbVadFail
    \/ CbFlags
    \/ IsSpeech

Spec == Init /\ [][Next]_vars

\* Scheduling: the controlling thread takes its next step when it has one
\* (sd.sleep returns after its interval, so the clock read by the loop
\* advances), and an invoked callback runs to its end. Failures to open and
\* interruptions may happen but need not.
Fairness ==
    /\ WF_vars(OpenStream)
    /\ WF_vars(StartTimer)
    /\ WF_vars(LoopCheck)
    /\ WF_vars(Sleep)
    /\ WF_vars(CloseStream)
    /\ WF_vars(Return)
    /\ WF_vars(CbAppend)
    /\ WF_vars(CbVad \/ CbVadFail)
    /\ WF_vars(CbFlags)

LiveSpec == Init /\ [][Next]_vars /\ Fairness

\* ================================================== the pure functions
\* An array is described by its dtype, its length and where its samples
\* come from; Raised stands for a call that raised instead of returning.
FnRates == {8000, 16000, 22050, 44100, 48000}
FnLengths == {0, 6, 7, 511, 512, 513, 1411, 1412, 1536, 1537}
DTypes == {"int16", "float32"}
\* durations in seconds, as fractions
Durations == {[num |-> 1, den |-> 1], [num |-> 1, den |-> 2],
              [num |-> 1, den |-> 1000], [num |-> 28, den |-> 1000],
              [num |-> 3, den |-> 5000]}

Raised == [ok |-> FALSE]
Array(dtype, len, tag) == [ok |-> TRUE, dtype |-> dtype, len |-> len, tag |-> tag]

\* bytes per sample of tobytes()
ItemSize(dtype) == IF dtype = "int16" THEN 2 ELSE 4

\* (variant) _resample without the equal-rates shortcut
_resample_always(audio, orig_sr, target_sr) ==
    IF audio.len = 0 \/ (audio.len * target_sr) \div orig_sr = 0
    THEN Raised
    ELSE Array(audio.dtype, (audio.len * target_sr) \div orig_sr,
               <<"resampled", audio.tag, orig_sr, target_sr>>)

\* _resample: the input itself for equal rates; else int(len * target / orig)
\* samples computed by signal.resample, which raises when there is no sample
\* to transform or to produce, cast back to the input's dtype
_resample(audio, orig_sr, target_sr) ==
    IF orig_sr = target_sr THEN audio
    ELSE IF audio.len = 0 \/ ResampleLen(audio.len, orig_sr, target_sr) = 0
    THEN Raised
    ELSE Array(audio.dtype, ResampleLen(audio.len, orig_sr, target_sr),
               <<"resampled", audio.tag, orig_sr, target_sr>>)

\* Microphone._resample_to_vad_chunk on a device of the given rate: the
\* frame is head samples of the resampled chunk followed by pad zeros
_resample_to_vad_chunk(audio, device_sample_rate) ==
    LET resampled == IF device_sample_rate # VAD_SAMPLE_RATE
                     THEN _resample(audio, device_sample_rate, VAD_SAMPLE_RATE)
                     ELSE audio
    IN  IF ~resampled.ok THEN Raised
        ELSE IF resampled.len > VAD_CHUNK_SAMPLES
        THEN [ok |-> TRUE, dtype |-> "float32", of |-> resampled,
              head |-> VAD_CHUNK_SAMPLES, pad |-> 0]
        ELSE IF resampled.len < VAD_CHUNK_SAMPLES
        THEN [ok |-> TRUE, dtype |-> "float32", of |-> resampled,
              head |-> resampled.len,
              pad |-> VAD_CHUNK_SAMPLES - resampled.len]
        ELSE [ok |-> TRUE, dtype |-> "float32", of |-> resampled,
              head |-> resampled.len, pad |-> 0]

\* Microphone.record_seconds on a device of the given rate
record_seconds(device_sample_rate, duration) ==
    LET samples == (device_sample_rate * duration.num) \div duration.den
        audio == Array("int16", samples, "recorded")
        audio_16k == _resample(audio, device_sample_rate, VAD_SAMPLE_RATE)
    IN  IF ~audio_16k.ok THEN Raised
        ELSE [ok |-> TRUE, samples |-> audio_16k.len,
              nbytes |-> audio_16k.len * ItemSize(audio_16k.dtype)]

FnInit ==
    /\ fnOp = "none"
    /\ fnIn \in [audio : {Array(t, n, "samples") : t \in DTypes, n \in FnLengths},
                 orig_sr : FnRates,
                 target_sr : FnRates,
                 duration : Durations]
    /\ fnOut = None
    /\ MicParked
    /\ MemParked
    /\ StParked
    /\ AgParked

DoResample ==
    /\ fnOp = "none"
    /\ fnOp' = "_resample"
    /\ fnOut' = _resample(fnIn.audio, fnIn.orig_sr, fnIn.target_sr)
    /\ UNCHANGED <<fnIn, micVars, memVars, stVars, agVars>>

DoResampleToVadChunk ==
    /\ fnOp = "none"
    /\ fnOp' = "_resample_to_vad_chunk"
    /\ fnOut' = _resample_to_vad_chunk(fnIn.audio, fnIn.orig_sr)
    /\ UNCHANGED <<fnIn, micVars, memVars, stVars, agVars>>

DoRecordSeconds ==
    /\ fnOp = "none"
    /\ fnOp' = "record_seconds"
    /\ fnOut' = record_seconds(fnIn.orig_sr, fnIn.duration)
    /\ UNCHANGED <<fnIn, micVars, memVars, stVars, agVars>>

\* Microphone.__init__ on a device of rate fnIn.orig_sr: self.chunk_size
DoInit ==
    /\ fnOp = "none"
    /\ fnOp' = "__init__"
    /\ fnOut' = [ok |-> TRUE, device_sample_rate |-> fnIn.orig_sr,
                 chunk_size |-> ChunkSize(fnIn.orig_sr)]
    /\ UNCHANGED <<fnIn, micVars, memVars, stVars, agVars>>

FnNext ==
    \/ DoResample
    \/ DoResampleToVadChunk
    \/ DoRecordSeconds
    \/ DoInit

FnSpec == FnInit /\ [][FnNext]_vars

\* ---------------------------------------------------------- agent memory
\* src/src/agent/memory.py: AgentMemory. An interaction is identified by
\* its position among the add_interaction calls made since the history
\* was last empty by construction or clear(); added and ctxLog record the
\* calls made, got what the last get_context was asked and what it returned.
MaxHistories == 0..2            \* max_history arguments
Keys == {"k1", "k2"}
Values == {None, "v1"}          \* values stored, None among them
Defaults == {None, "d"}         \* default arguments of get_context
EmptyDict == <<>>

\* a Python slice seq[-n:]
SliceLast(seq, n) ==
    IF n > 0 THEN SubSeq(seq, Len(seq) - Min(n, Len(seq)) + 1, Len(seq))
    ELSE IF n = 0 THEN seq
    ELSE SubSeq(seq, Min(-n, Len(seq)) + 1, Len(seq))

\* the history after appending an interaction and trimming
Trimmed(h, max) == IF Len(h) > max THEN SliceLast(h, max) ELSE h

\* dict[key] = value
DictSet(d, key, value) ==
    [k \in DOMAIN d \cup {key} |-> IF k = key THEN value ELSE d[k]]

DictGet_or(d, key, default) ==
    IF key \in DOMAIN d /\ d[key] # None THEN d[key] ELSE default

\* dict.get(key, default)
DictGet(d, key, default) == IF key \in DOMAIN d THEN d[key] ELSE default

LogEntry(op, key, value) == [op |-> op, key |-> key, value |-> value]

MemInit ==
    /\ max_history \in MaxHistories
    /\ history = <<>>
    /\ context = EmptyDict
    /\ memOp = "none"
    /\ got = None
    /\ added = <<>>
    /\ ctxLog = <<>>
    /\ MicParked
    /\ FnParked
    /\ StParked
    /\ AgParked

AddInteraction ==
    /\ Len(added) < MaxAdds
    /\ LET interaction == Len(added) + 1
       IN  /\ history' = Trimmed(Append(history, interaction), max_history)
           /\ added' = Append(added, interaction)
    /\ memOp' = "add_interaction"
    /\ UNCHANGED <<max_history, context, got, ctxLog, micVars, fnVars, stVars, agVars>>

SetContext ==
    /\ Len(ctxLog) < MaxCtxOps
    /\ \E key \in Keys, value \in Values :
        /\ context' = DictSet(context, key, value)
        /\ ctxLog' = Append(ctxLog, LogEntry("set_context", key, value))
    /\ memOp' = "set_context"
    /\ UNCHANGED <<max_history, history, got, added, micVars, fnVars, stVars, agVars>>

GetContext ==
    /\ \E key \in Keys, default \in Defaults :
        got' = [key |-> key, default |-> default,
                value |-> DictGet(context, key, default)]
    /\ memOp' = "get_context"
    /\ UNCHANGED <<max_history, history, context, added, ctxLog,
                   micVars, fnVars, stVars, agVars>>

\* the n arguments of get_history: <<>> stands for None, <<k>> for k
HistoryArgs == {<<>>} \cup {<<k>> : k \in 0..MaxAdds}

\* what get_history(n) returns: a copy for None, the slice [-n:] otherwise,
\* in both cases a list of its own
GetHistoryReturn(h, n) ==
    [n |-> n,
     value |-> IF n = <<>> THEN h ELSE SliceLast(h, n[1]),
     same_list |-> FALSE,
     changed |-> FALSE]

GetHistory ==
    /\ \E n \in HistoryArgs : got' = GetHistoryReturn(history, n)
    /\ memOp' = "get_history"
    /\ UNCHANGED <<max_history, history, context, added, ctxLog,
                   micVars, fnVars, stVars, agVars>>

\* the caller appends an element of its own to the list get_history returned
ChangeReturned ==
    /\ memOp = "get_history"
    /\ ~got.changed
    /\ got' = [got EXCEPT !.value = Append(got.value, 0), !.changed = TRUE]
    /\ history' = IF got.same_list THEN Append(got.value, 0) ELSE history
    /\ UNCHANGED <<max_history, context, memOp, added, ctxLog,
                   micVars, fnVars, stVars, agVars>>

ClearContext ==
    /\ Len(ctxLog) < MaxCtxOps
    /\ context' = EmptyDict
    /\ ctxLog' = Append(ctxLog, LogEntry("clear_context", None, None))
    /\ memOp' = "clear_context"
    /\ UNCHANGED <<max_history, history, got, added, micVars, fnVars, stVars, agVars>>

Clear ==
    /\ Len(ctxLog) < MaxCtxOps
    /\ history' = <<>>
    /\ context' = EmptyDict
    /\ added' = <<>>
    /\ ctxLog' = Append(ctxLog, LogEntry("clear", None, None))
    /\ memOp' = "clear"
    /\ UNCHANGED <<max_history, got, micVars, fnVars, stVars, agVars>>

MemNext ==
    \/ AddInteraction
    \/ SetContext
    \/ GetContext
    \/ ClearContext
    \/ Clear
    \/ GetHistory
    \/ ChangeReturned

MemSpec == MemInit /\ [][MemNext]_vars

\* ----------------------------------------------------------- agent state
\* src/src/agent/state.py: AgentState. stOp is the last call with its
\* arguments, stPrev the status that call found.
Statuses == {"idle", "listening", "processing", "speaking", "error"}
Tasks == {None, "t1", "t2"}     \* task arguments of set_status
Errors == {"e1", "e2"}          \* error messages

StatusAfterClear_idle(s) == "idle"

\* the status clear_error leaves
StatusAfterClear(s) == IF s = "error" THEN "idle" ELSE s

StateInit ==
    /\ status = "idle"
    /\ last_error = None
    /\ current_task = None
    /\ stOp = <<"none">>
    /\ stPrev = "idle"
    /\ MicParked
    /\ FnParked
    /\ MemParked
    /\ AgParked

SetStatus ==
    /\ \E s \in Statuses, task \in Tasks :
        /\ status' = s
        /\ current_task' = IF task # None THEN task ELSE current_task
        /\ stOp' = <<"set_status", s, task>>
    /\ stPrev' = status
    /\ UNCHANGED <<last_error, micVars, fnVars, memVars, agVars>>

SetError ==
    /\ \E error \in Errors :
        /\ status' = "error"
        /\ last_error' = error
        /\ stOp' = <<"set_error", error>>
    /\ stPrev' = status
    /\ UNCHANGED <<current_task, micVars, fnVars, memVars, agVars>>

ClearError ==
    /\ last_error' = None
    /\ status' = StatusAfterClear(status)
    /\ stOp' = <<"clear_error">>
    /\ stPrev' = status
    /\ UNCHANGED <<current_task, micVars, fnVars, memVars, agVars>>

StateNext ==
    \/ SetStatus
    \/ SetError
    \/ ClearError

StateSpec == StateInit /\ [][StateNext]_vars

\* ------------------------------------------- agent and MCP server
\* src/src/agent/core.py (WalkieAgent) and src/src/agent/mcp_server.py.
\* One agent, made by create_agent_from_config, so with AgentMemory() and
\* AgentState() as constructed. An interaction is the pair of the command
\* and the response; the model's answers are told apart by numbering them:
\* the answer to a task that finds n interactions stored is n + 1, and 0
\* stands for no answer. The call logs of MemSpec (added, ctxLog) are not
\* kept.
\* A text item of a reply is [kind, name, data]; what the language model,
\* the tools, the audio services and the file system do in a call is env.
DefaultMaxHistory == 100        \* AgentMemory(max_history=100)
HistoryWindow == 5              \* get_history(n=5) in execute_task
Commands == {"c1"}
AgentKeys == {"k1"}
JsonTexts == {"null", "\"v1\"", "v1"}   \* value arguments of set_context
Queries == {"c1", "zzz"}
ToolNames == {"execute_task", "process_voice_input",
              "generate_voice_response", "get_conversation_history",
              "get_agent_state", "clear_memory", "search_history",
              "set_context", "get_context"}
CallNames == ToolNames \cup {"no_such_tool"}

\* list_tools: the "required" properties of each tool's inputSchema
RequiredArgs(name) ==
    CASE name = "execute_task" -> {"command"}
      [] name = "process_voice_input" -> {"audio_path"}
      [] name = "generate_voice_response" -> {"text", "output_path"}
      [] name = "search_history" -> {"query"}
      [] name = "set_context" -> {"key", "value"}
      [] name = "get_context" -> {"key"}
      [] OTHER -> {}

\* json.loads(value): whether it parses, and the Python value it gives
JsonParses(s) == s \in {"null", "\"v1\""}
JsonLoads(s) == IF s = "null" THEN None ELSE "v1"

Interaction(user_input, agent_response) ==
    [user_input |-> user_input, agent_response |-> agent_response]

Item(kind, name, data) == [kind |-> kind, name |-> name, data |-> data]

\* the arguments a call of a tool may carry: every subset of its properties
Arguments(name) ==
    LET With(ds, k, vs) == ds \cup {DictSet(d, k, v) : d \in ds, v \in vs}
    IN  CASE name = "execute_task" -> With({EmptyDict}, "command", Commands)
          [] name = "process_voice_input"
                -> With({EmptyDict}, "audio_path", {"in.wav"})
          [] name = "generate_voice_response"
                -> With(With({EmptyDict}, "text", {"hello"}),
                        "output_path", {"out.wav"})
          [] name = "get_conversation_history"
                -> With({EmptyDict}, "n", {0, HistoryWindow})
          [] name = "search_history" -> With({EmptyDict}, "query", Queries)
          [] name = "set_context"
                -> With(With({EmptyDict}, "key", AgentKeys),
                        "value", JsonTexts)
          [] name = "get_context" -> With({EmptyDict}, "key", AgentKeys)
          [] OTHER -> {EmptyDict}

\* what the collaborators may do in a call of a tool
Envs(name) ==
    LET task == {"direct", "tools", "llm_fail", "tool_fail", "final_fail"}
    IN  CASE name = "execute_task" -> task
          [] name = "process_voice_input"
                -> task \cup {"file_missing", "io_fail"}
          [] name = "generate_voice_response"
                -> {"direct", "tts_fail", "io_fail"}
          [] OTHER -> {"direct"}

\* (variant) execute_task asks for the whole history
HistoryArg_none == <<>>

\* n of the get_history call in execute_task
HistoryArg == <<HistoryWindow>>

\* WalkieAgent.execute_task(command): what it returns or that it raises,
\* and what it leaves in the memory and the state. The model answers
\* directly ("direct") or asks for tools and then answers ("tools"); the
\* model may fail at either call and a tool may fail (the default
\* TextToSpeech tool does: it calls asyncio.run inside the running loop).
\* add_interaction is the last statement, so a call that raises has not
\* reached it.
execute_task(command, env) ==
    LET chat_history == GetHistoryReturn(history, HistoryArg).value
        raises ==
            [raised |-> TRUE, result |-> 0, history |-> history,
             current_task |-> command, passed |-> chat_history]
        returns(response) ==
            [raised |-> FALSE, result |-> response,
             history |-> Trimmed(Append(history,
                                        Interaction(command, response)),
                                 max_history),
             current_task |-> command, passed |-> chat_history]
    IN  CASE env \in {"llm_fail", "tool_fail", "final_fail"} -> raises
          [] OTHER -> returns(Len(history) + 1)

\* the body of call_tool's try block: the reply, or that an exception left
\* it, and the memory and state it leaves
Handle(name, arguments, env) ==
    LET same == [history |-> history, context |-> context,
                 current_task |-> current_task,
                 audio |-> last_audio_output, passed |-> passed]
        Raise(after) ==
            [raised |-> TRUE, content |-> <<>>, after |-> after]
        Reply(item, after) ==
            [raised |-> FALSE, content |-> <<item>>, after |-> after]
        Has(k) == k \in DOMAIN arguments
        Task(command, wrap(_)) ==
            LET t == execute_task(command, env)
                after == [same EXCEPT !.history = t.history,
                                      !.current_task = t.current_task,
                                      !.passed = t.passed]
            IN  IF t.raised THEN Raise(after)
                ELSE Reply(wrap(t.result), after)
        AsText(r) == Item("text", name, <<r>>)
        AsVoice(r) == Item("json", name, <<"c1", r>>)
    IN  CASE name = "execute_task" ->
                IF ~Has("command") THEN Raise(same)
                ELSE Task(arguments["command"], AsText)
          [] name = "process_voice_input" ->
                IF ~Has("audio_path") THEN Raise(same)
                ELSE IF env = "file_missing"
                THEN Reply(Item("audio_not_found", name,
                                <<arguments["audio_path"]>>), same)
                ELSE IF env = "io_fail" THEN Raise(same)
                ELSE Task("c1", AsVoice)
          [] name = "generate_voice_response" ->
                IF ~Has("text") \/ ~Has("output_path") \/ env = "tts_fail"
                THEN Raise(same)
                ELSE IF env = "io_fail"
                THEN Raise([same EXCEPT !.audio = "audio"])
                ELSE Reply(Item("json", name, <<arguments["output_path"]>>),
                           [same EXCEPT !.audio = "audio"])
          [] name = "get_conversation_history" ->
                LET n == IF Has("n") THEN <<arguments["n"]>> ELSE <<>>
                IN  Reply(Item("json", name,
                               GetHistoryReturn(history, n).value), same)
          [] name = "get_agent_state" ->
                Reply(Item("json", name,
                           <<status, current_task, last_error,
                             IF last_audio_output # None THEN "true"
                             ELSE "false">>), same)
          [] name = "clear_memory" ->
                Reply(Item("cleared", name, <<>>),
                      [same EXCEPT !.history = <<>>, !.context = EmptyDict])
          [] name = "search_history" ->
                IF ~Has("query") THEN Raise(same)
                ELSE LET q == arguments["query"]
                         \* no query occurs in a numbered answer
                         hit(i) == q = i.user_input
                     IN  Reply(Item("json", name, SelectSeq(history, hit)),
                               same)
          [] name = "set_context" ->
                IF ~Has("key") \/ ~Has("value") THEN Raise(same)
                ELSE LET value == arguments["value"]
                         parsed_value == IF JsonParses(value)
                                         THEN JsonLoads(value) ELSE value
                     IN  Reply(Item("context_set", name,
                                    <<arguments["key"]>>),
                               [same EXCEPT !.context =
                                    DictSet(context, arguments["key"],
                                            parsed_value)])
          [] name = "get_context" ->
                IF ~Has("key") THEN Raise(same)
                ELSE LET key == arguments["key"]
                         value == DictGet(context, key, None)
                     IN  IF value = None
                         THEN Reply(Item("context_not_found", name, <<key>>),
                                    same)
                         ELSE Reply(Item("json", name, <<key, value>>), same)
          [] OTHER -> Reply(Item("unknown_tool", name, <<>>), same)

\* (variant) call_tool without its except clause
CallToolReply_uncaught(name, body) ==
    [raised |-> body.raised, value |-> 0,
     content |-> body.content]

\* call_tool's try / except Exception: an exception of the body becomes
\* the text item "Error executing <name>: ..."
CallToolReply(name, body) ==
    [raised |-> FALSE, value |-> 0,
     content |-> IF body.raised THEN <<Item("error", name, <<>>)>>
                 ELSE body.content]

\* the agent when the server is first asked for it
AgentInit ==
    /\ _agent = None
    /\ last_audio_output = None
    /\ agOp = [via |-> "none", name |-> None, arguments |-> EmptyDict,
               env |-> None]
    /\ agOut = [raised |-> FALSE, value |-> 0, content |-> <<>>]
    /\ passed = <<>>
    /\ max_history = DefaultMaxHistory
    /\ history = <<>>
    /\ context = EmptyDict
    /\ memOp = "none" /\ got = None /\ added = <<>> /\ ctxLog = <<>>
    /\ status = "idle"
    /\ last_error = None
    /\ current_task = None
    /\ stOp = <<"none">>
    /\ stPrev = "idle"
    /\ MicParked
    /\ FnParked

\* get_agent() raises: create_agent_from_config failed, call_tool raises
\* before its try block
CallToolNoAgent ==
    /\ _agent = None
    /\ \E name \in CallNames :
        \E arguments \in Arguments(name) :
            agOp' = [via |-> "mcp", name |-> name, arguments |-> arguments,
                     env |-> "create_fail"]
    /\ agOut' = [raised |-> TRUE, value |-> 0, content |-> <<>>]
    /\ UNCHANGED <<_agent, last_audio_output, passed, micVars, fnVars,
                   memVars, stVars>>

\* call_tool(name, arguments) of the MCP server
CallTool ==
    \E name \in CallNames :
        \E arguments \in Arguments(name), env \in Envs(name) :
            LET body == Handle(name, arguments, env)
            IN  /\ Len(body.after.history) <= MaxTasks
                /\ _agent' = "agent"
                /\ agOp' = [via |-> "mcp", name |-> name,
                            arguments |-> arguments, env |-> env]
                /\ agOut' = CallToolReply(name, body)
                /\ history' = body.after.history
                /\ context' = body.after.context
                /\ current_task' = body.after.current_task
                /\ last_audio_output' = body.after.audio
                /\ passed' = body.after.passed
                /\ UNCHANGED <<max_history, memOp, got, added, ctxLog,
                               status, last_error, stOp, stPrev,
                               micVars, fnVars>>

\* agent.execute_task(command) called on the agent itself
ExecuteTask ==
    \E command \in Commands,
       env \in {"direct", "tools", "llm_fail", "tool_fail", "final_fail"} :
        LET t == execute_task(command, env)
        IN  /\ Len(t.history) <= MaxTasks
            /\ agOp' = [via |-> "direct", name |-> "execute_task",
                        arguments |-> DictSet(EmptyDict, "command", command),
                        env |-> env]
            /\ agOut' = [raised |-> t.raised, value |-> t.result,
                         content |-> <<>>]
            /\ history' = t.history
            /\ current_task' = t.current_task
            /\ passed' = t.passed
            /\ UNCHANGED <<_agent, last_audio_output, max_history, context, memOp, got, added,
                           ctxLog, status, last_error, stOp, stPrev,
                           micVars, fnVars>>

AgentNext ==
    \/ CallToolNoAgent
    \/ CallTool
    \/ ExecuteTask

AgentSpec == AgentInit /\ [][AgentNext]_vars


\* ------------------------------------------------------------ properties
Ids(n) == [k \in 1..n |-> k]
IsSilence(p) == p < cfg.threshold

\* the call at hand opened its stream and is over
CallOver == pc = "idle" /\ outcome # "none" /\ exitReason # "open_failed"

\* C1: once speech_ended is true, every later callback invocation returns
\* immediately: it appends nothing to the buffer, does not run the VAD
\* engine and changes neither flag.
C1_EndedCallbackIsNoop ==
    [][(speech_ended /\ nDelivered' = nDelivered + 1)
         => /\ cbpc' = "idle"
            /\ UNCHANGED <<audio_chunks, vad, fed, speech_started,
                           speech_ended>>]_vars

\* a chunk was delivered after speech_ended was set, and dropped
C1_Witness ==
    /\ speech_ended
    /\ stream = "active"
    /\ cbpc = "idle"
    /\ nDelivered > Len(audio_chunks)

\* C2: once the stream is closed the buffer holds exactly the chunks
\* delivered before speech_ended became true, once each, in delivery order.
C2_BufferExact ==
    stream = "closed"
        => /\ audio_chunks = beforeEnd
           /\ beforeEnd = Ids(Len(beforeEnd))
           /\ (outcome = "returned" => retval.from = beforeEnd)

\* a closed stream with two kept chunks and later ones dropped
C2_Witness ==
    /\ stream = "closed"
    /\ outcome = "returned"
    /\ Len(audio_chunks) >= 2
    /\ nDelivered > Len(audio_chunks)

\* C3: a call that opened the stream has closed it when it returns or
\* raises, whether the loop ended by speech end, by timeout or by an error.
C3_StreamClosedOnExit ==
    /\ pc \in {"idle", "combine"} => stream \in {"none", "closed"}
    /\ CallOver => stream = "closed"

\* a call that raised out of the with-body, with its stream closed
C3_Witness ==
    /\ CallOver
    /\ outcome = "raised"
    /\ exitReason = "error"
    /\ stream = "closed"

\* C4: one call closes its stream exactly once, on the controlling thread,
\* also when the timeout expires while the callback sets speech_ended.
C4_ClosedExactlyOnce ==
    /\ closeCount <= 1
    /\ closedBy \subseteq {"controller"}
    /\ CallOver => closeCount = 1

\* the call slept, then speech_ended and the timeout were both true at exit
C4_Witness ==
    /\ CallOver
    /\ closeCount = 1
    /\ speech_ended
    /\ timeout > 0
    /\ elapsed >= timeout

\* C5: every call starts from a fresh session: engine as newly built,
\* buffer empty, both flags false, whatever state the engine was left in.
C5_FreshSession ==
    pc = "open"
        => /\ vad = VADIterator(cfg.threshold, cfg.min_silence_duration_ms)
           /\ audio_chunks = <<>>
           /\ ~speech_started
           /\ ~speech_ended

\* a call that found the engine triggered with silence counted
C5_Witness ==
    /\ pc = "open"
    /\ prevVad.triggered
    /\ prevVad.silence_ms > 0

\* C6: in a session (since construction or the last reset) an End is only
\* emitted after a Start with no End in between.
C6_EndNeedsStart ==
    /\ lastEvent = "end" => prevEvent = "start"
    /\ lastResult = "end" => lastEvent = "end"
    /\ vad.triggered <=> lastEvent = "start"

\* an End following a Start in a session that began by resetting a
\* triggered engine
C6_Witness ==
    /\ pc # "idle"
    /\ prevVad.triggered
    /\ lastEvent = "end"
    /\ prevEvent = "start"

\* C7: after a reset, from any engine state, the engine answers every frame
\* as a newly constructed one does; a frame at or above the threshold gives
\* Start.
C7_ResetReproducesStart ==
    /\ sinceReset = 0
         => \A p \in Probs :
              LET fresh == VADIterator(cfg.threshold,
                                       cfg.min_silence_duration_ms)
              IN  /\ VadEvent(vad, p) = VadEvent(fresh, p)
                  /\ VadNext(vad, p) = VadNext(fresh, p)
    /\ (sinceReset = 1 /\ lastProb >= cfg.threshold) => lastResult = "start"

\* the first frame after resetting a triggered engine gave Start
C7_Witness ==
    /\ pc # "idle"
    /\ prevVad.triggered
    /\ prevVad.silence_ms > 0
    /\ sinceReset = 1
    /\ lastProb >= cfg.threshold
    /\ lastResult = "start"

\* the frames are silence, then speech, then enough silence for an End
SilenceSpeechSilence(f) ==
    \E i, j \in 1..Len(f) :
        /\ 1 < i /\ i <= j /\ j < Len(f)
        /\ \A k \in 1..Len(f) : IsSilence(f[k]) <=> (k < i \/ k > j)
        /\ (Len(f) - j) * FrameMs >= cfg.min_silence_duration_ms

\* C8: a run fed silence, speech, then the minimum silence sees exactly one
\* Start and one End, sets both flags, and returns all chunks up to and
\* including the one on which End fired.
C8_OneStartOneEnd ==
    (CallOver /\ outcome = "returned" /\ SilenceSpeechSilence(fed))
        => /\ nStart = 1 /\ nEnd = 1
           /\ speech_started /\ speech_ended
           /\ result = "end"
           /\ audio_chunks = Ids(Len(fed))
           /\ retval = Output(Ids(Len(fed)), cfg.device_sample_rate)

\* such a run ended by speech end, with chunks delivered after the End
C8_Witness ==
    /\ CallOver
    /\ outcome = "returned"
    /\ SilenceSpeechSilence(fed)
    /\ exitReason = "ended"
    /\ nDelivered > Len(fed)

\* C9 as stated: with timeout 0 and no speech (every frame the VAD saw was
\* silence, and it failed on none) the call returns b"" under every
\* interleaving of the callback with the opening and closing.
C9_Original ==
    (/\ CallOver
     /\ timeout = 0
     /\ Len(fed) = Len(audio_chunks)
     /\ \A k \in 1..Len(fed) : IsSilence(fed[k]))
        => (outcome = "returned" /\ retval = EmptyBytes)

\* C9 amended: with timeout 0 a call whose stream opened never sleeps and
\* never raises; it returns the resampled chunks the callback appended
\* between open and close, which is b"" exactly when no chunk was delivered.
C9_TimeoutZero ==
    (CallOver /\ timeout = 0)
        => /\ outcome = "returned"
           /\ nSleeps = 0
           /\ retval = Output(audio_chunks, cfg.device_sample_rate)
           /\ retval = EmptyBytes <=> nDelivered = 0

\* a timeout-0 call during which no chunk was delivered returned b""
C9_Witness ==
    /\ CallOver
    /\ timeout = 0
    /\ outcome = "returned"
    /\ nDelivered = 0
    /\ retval = EmptyBytes

\* C10: when the loop ends by timeout the call returns normally the
\* resampled concatenation of the chunks appended so far (b"" when none),
\* whether a Start was seen or not.
C10_TimeoutReturnsPartial ==
    (pc = "idle" /\ exitReason = "timeout")
        => /\ outcome = "returned"
           /\ ~raising
           /\ audio_chunks = <<>> => retval = EmptyBytes
           /\ audio_chunks # <<>>
                => /\ retval.from = audio_chunks
                   /\ retval.nbytes =
                        2 * ResampleLen(Len(audio_chunks)
                                          * ChunkSize(cfg.device_sample_rate),
                                        cfg.device_sample_rate,
                                        VAD_SAMPLE_RATE)

\* a timeout with chunks captured and no Start seen
C10_Witness ==
    /\ pc = "idle"
    /\ exitReason = "timeout"
    /\ outcome = "returned"
    /\ ~speech_started
    /\ Len(audio_chunks) >= 2
    /\ retval # EmptyBytes

\* a timeout between a Start and its End also returns the partial buffer
C10_WitnessMidSpeech ==
    /\ pc = "idle"
    /\ exitReason = "timeout"
    /\ outcome = "returned"
    /\ speech_started /\ ~speech_ended
    /\ retval.from = audio_chunks


\* C11: a call whose stream failed to open, or whose VAD model failed on a
\* frame in the callback, ends by raising, with the stream released.
C11_FailuresPropagate ==
    (/\ pc = "idle"
     /\ outcome # "none"
     /\ exitReason = "open_failed" \/ Len(fed) < Len(audio_chunks))
        => /\ outcome = "raised"
           /\ stream \in {"none", "closed"}

\* C12: no Microphone holds a threshold outside [0,1] or a negative
\* min_silence_duration_ms.
C12_ConfigInRange ==
    /\ cfg.threshold \in 0..(2 * DefaultThreshold)
    /\ cfg.min_silence_duration_ms >= 0
    /\ vad.threshold \in 0..(2 * DefaultThreshold)

Round(a, b) == (2 * a + b) \div (2 * b)
Abs(x) == IF x < 0 THEN -x ELSE x

\* C13: the frame handed to the VAD always has 512 samples, the first 512
\* of the resampled chunk or all of it followed by zeros, and making it
\* never raises, whatever the chunk length and the device rate.
C13_FrameAlways512 ==
    fnOp = "_resample_to_vad_chunk"
        => /\ fnOut.ok
           /\ fnOut.head + fnOut.pad = VAD_CHUNK_SAMPLES
           /\ fnOut.head = Min(fnOut.of.len, VAD_CHUNK_SAMPLES)

\* C14: resampling from a rate to the same rate returns the input: same
\* samples, same length, same dtype.
C14_ResampleIdentity ==
    (fnOp = "_resample" /\ fnIn.orig_sr = fnIn.target_sr)
        => fnOut = fnIn.audio

\* equal rates, a non-empty int16 input, returned as it was
C14_Witness ==
    /\ fnOp = "_resample"
    /\ fnIn.orig_sr = fnIn.target_sr
    /\ fnIn.audio.len > 0
    /\ fnIn.audio.dtype = "int16"
    /\ fnOut = fnIn.audio

\* C15: for different rates what resample returns has exactly
\* round(n * to / from) samples.
C15_ResampleRounds ==
    (fnOp = "_resample" /\ fnIn.orig_sr # fnIn.target_sr /\ fnOut.ok)
        => fnOut.len = Round(fnIn.audio.len * fnIn.target_sr, fnIn.orig_sr)

\* C16: record_seconds(d) returns 2 bytes per sample for a number of
\* samples within 1 of 16000 * d.
C16_RecordSecondsLength ==
    fnOp = "record_seconds"
        => /\ fnOut.ok
           /\ fnOut.nbytes = 2 * fnOut.samples
           /\ Abs(fnOut.samples * fnIn.duration.den
                    - VAD_SAMPLE_RATE * fnIn.duration.num)
                <= fnIn.duration.den

\* the value get_context(key, default) is to return after the calls of log:
\* that of the last set_context(key, v) since the last clear_context or
\* clear, default when there is none
RECURSIVE LastSet(_, _, _)
LastSet(log, key, default) ==
    IF log = <<>> THEN default
    ELSE LET last == log[Len(log)]
         IN  IF last.op # "set_context" THEN default
             ELSE IF last.key = key THEN last.value
             ELSE LastSet(SubSeq(log, 1, Len(log) - 1), key, default)

\* C18: for any max_history the history holds at most max_history
\* interactions, the most recently added ones in the order they were added.
C18_HistoryBounded ==
    memOp # "parked"
        => /\ Len(history) <= max_history
           /\ history = SubSeq(added,
                               Len(added) - Min(max_history, Len(added)) + 1,
                               Len(added))

\* C19: get_context(k, d) returns the value of the last set_context(k, v)
\* made since the last clear_context or clear, and d when there is none;
\* clear_context leaves the history unchanged and add_interaction leaves
\* the context unchanged.
C19_ContextLastSet ==
    [][/\ memOp' = "get_context"
            => got'.value = LastSet(ctxLog', got'.key, got'.default)
       /\ memOp' = "clear_context"
            => history' = history /\ context' = EmptyDict
       /\ memOp' = "add_interaction" => context' = context]_vars

\* a key set, the context cleared, the key set again to None with
\* interactions in the history: get_context returns None, not the default
C19_Witness ==
    /\ memOp = "get_context"
    /\ Len(history) > 0
    /\ Len(ctxLog) = 3
    /\ ctxLog[1] = LogEntry("set_context", got.key, "v1")
    /\ ctxLog[2].op = "clear_context"
    /\ ctxLog[3] = LogEntry("set_context", got.key, None)
    /\ got.default = "d"
    /\ got.value = None

\* C20: set_error(e) leaves status ERROR and last_error e; clear_error
\* leaves last_error None, status IDLE when it was ERROR and the status it
\* found otherwise, so never ERROR.
C20_ErrorHandling ==
    /\ stOp[1] = "set_error" => status = "error" /\ last_error = stOp[2]
    /\ stOp[1] = "clear_error"
        => /\ last_error = None
           /\ stPrev = "error" => status = "idle"
           /\ stPrev # "error" => status = stPrev
           /\ status # "error"

\* clear_error found a status other than ERROR with an error recorded
\* (set_error, then set_status) and left that status
C20_Witness ==
    /\ stOp = <<"clear_error">>
    /\ stPrev = "speaking"
    /\ status = "speaking"
    /\ last_error = None
    /\ current_task = "t1"

\* the callback hands a frame to the engine
CallbackFrame == cbpc = "vad" /\ cbpc' = "flags"

\* the number of frames at the end of probs that are below threshold
RECURSIVE TrailingBelow(_, _)
TrailingBelow(probs, threshold) ==
    IF probs = <<>> THEN 0
    ELSE IF probs[Len(probs)] >= threshold THEN 0
    ELSE 1 + TrailingBelow(SubSeq(probs, 1, Len(probs) - 1), threshold)

\* C22: a frame at or above the configured threshold on a non-triggered
\* engine makes it triggered and gives Start; a frame below the threshold
\* on a non-triggered engine gives no event and leaves it non-triggered.
C22_StartRule ==
    [][(CallbackFrame /\ ~vad.triggered)
        => LET p == fed'[Len(fed')]
           IN  IF p >= cfg.threshold
               THEN vad'.triggered /\ result' = "start"
               ELSE ~vad'.triggered /\ result' = "none" /\ vad' = vad]_vars

\* a frame below the threshold left the engine idle, the next one, at the
\* threshold, started speech
C22_Witness ==
    /\ cbpc = "flags"
    /\ fed = <<0, DefaultThreshold>>
    /\ cfg.threshold = DefaultThreshold
    /\ nStart = 0
    /\ result = "start"
    /\ vad.triggered

\* C23: on a triggered engine End is given, and the engine becomes not
\* triggered, exactly at the first frame at which the frames below the
\* threshold in a row amount to min_silence_duration_ms; a frame at or above
\* the threshold restarts the count and a shorter silence gives no End.
C23_EndRule ==
    [][(CallbackFrame /\ vad.triggered)
        => LET k == TrailingBelow(fed', cfg.threshold)
           IN  /\ result' = "end"
                    <=> (k > 0 /\ k * FrameMs >= cfg.min_silence_duration_ms)
               /\ result' = "end"
                    => (k - 1) * FrameMs < cfg.min_silence_duration_ms
               /\ vad'.triggered <=> result' # "end"]_vars

\* a silence too short, speech again, then a silence long enough: End at
\* the frame that completes it
C23_Witness ==
    /\ cbpc = "flags"
    /\ Len(fed) >= 4
    /\ fed[1] = DefaultThreshold
    /\ fed[2] = 0
    /\ fed[3] = DefaultThreshold
    /\ \A i \in 4..Len(fed) : fed[i] = 0
    /\ (Len(fed) - 3) * FrameMs >= cfg.min_silence_duration_ms
    /\ result = "end"
    /\ ~vad.triggered
    /\ nEnd = 0

\* C24: a call whose stream was opened eventually closes it and returns
\* (raises, when interrupted), whatever the callback does; the polling loop
\* is left exactly when speech_ended is true or the elapsed time has reached
\* the timeout.
C24_CallTerminates ==
    /\ [][(pc = "while" /\ pc' # "while")
            => (pc' = "exit" <=> (speech_ended \/ elapsed >= timeout))]_vars
    /\ (pc = "start_time")
          ~> (/\ CallOver
              /\ stream = "closed"
              /\ outcome = "returned" \/ exitReason = "error")

\* the engine failed in the callback, no end of speech was ever seen, and
\* the call still returned at the timeout after sleeping
C24_Witness ==
    /\ CallOver
    /\ outcome = "returned"
    /\ exitReason = "timeout"
    /\ ~speech_ended
    /\ Len(fed) < Len(audio_chunks)
    /\ nSleeps > 0

\* C25: the controlling thread reads the buffer only once the stream is
\* closed, nothing is appended after the close, and while the stream is
\* open the buffer changes only by the callback appending its chunk.
C25_BufferDiscipline ==
    [][/\ (pc = "combine" /\ pc' = "idle") => stream = "closed"
       /\ (stream = "closed" /\ stream' = "closed")
            => audio_chunks' = audio_chunks
       /\ (stream \in {"active", "aborted"} /\ audio_chunks' # audio_chunks)
            => /\ cbpc = "append"
               /\ pc' = pc
               /\ audio_chunks' = Append(audio_chunks, chunk)]_vars

\* three chunks were appended during the capture, the stream was closed at
\* the timeout and the buffer was then read into the returned bytes
C25_Witness ==
    /\ CallOver
    /\ outcome = "returned"
    /\ stream = "closed"
    /\ exitReason = "timeout"
    /\ Len(audio_chunks) = 3
    /\ nDelivered = 3
    /\ retval.from = audio_chunks

\* C26: the chunk size requested from the input stream is
\* round(512 * device_rate / 16000), for every device rate.
C26_ChunkSizeRounds ==
    fnOp = "__init__"
        => fnOut.chunk_size = Round(VAD_CHUNK_SAMPLES * fnOut.device_sample_rate,
                                    VAD_SAMPLE_RATE)

\* C28: within one call each flag changes only from false to true, only
\* the callback writes them, and speech_ended implies speech_started in
\* every state.
C28_FlagsMonotoneOrdered ==
    /\ [][(pc = "idle" /\ pc' = "open")
            \/ /\ speech_started => speech_started'
               /\ speech_ended => speech_ended'
               /\ <<speech_started, speech_ended>>'
                        # <<speech_started, speech_ended>>
                    => cbpc = "flags" /\ cbpc' = "idle" /\ pc' = pc]_vars
    /\ [](speech_ended => speech_started)

\* the callback set speech_started, later speech_ended, and the polling
\* loop has not looked yet
C28_Witness ==
    /\ pc \in {"while", "sleep"}
    /\ cbpc = "idle"
    /\ speech_started
    /\ speech_ended
    /\ nStart = 1
    /\ nEnd = 1
    /\ Len(fed) > 2

\* C27: get_history(n), n >= 0, returns the min(n, len(history)) most
\* recent interactions in order, get_history(None) all of them, and a
\* change of the returned list does not change the stored history.
C27_GetHistory ==
    /\ [](memOp = "get_history" /\ ~got.changed
            => IF got.n = <<>> THEN got.value = history
               ELSE LET m == Min(got.n[1], Len(history))
                    IN  got.value = SubSeq(history, Len(history) - m + 1,
                                           Len(history)))
    /\ [][(memOp = "get_history" /\ memOp' = "get_history")
            => history' = history]_vars

\* the last call came through the server and replied with one item
Replied(op, out) == op.via = "mcp" /\ ~out.raised /\ Len(out.content) = 1

\* C21: after a set_context call for key k with a string value v has
\* succeeded, a get_context call for k returns a JSON object mapping k to
\* the stored value (v parsed as JSON when it parses, else v itself), never
\* the "not found" text.
C21_SetThenGet ==
    [][(/\ Replied(agOp, agOut)
        /\ agOp.name = "set_context"
        /\ agOut.content[1].kind = "context_set"
        /\ agOp'.via = "mcp"
        /\ agOp'.name = "get_context"
        /\ "key" \in DOMAIN agOp'.arguments
        /\ agOp'.arguments["key"] = agOp.arguments["key"])
        => /\ Replied(agOp', agOut')
           /\ agOut'.content[1].kind = "json"
           /\ agOut'.content[1].data
                = <<agOp.arguments["key"],
                    IF JsonParses(agOp.arguments["value"])
                    THEN JsonLoads(agOp.arguments["value"])
                    ELSE agOp.arguments["value"]>>]_vars

\* C29: an execute_task call that returns appends exactly one interaction,
\* the command with the returned response, and gave the model at most the 5
\* most recent earlier interactions; one that raises leaves the history
\* as it was.
C29_TaskMemoryEffect ==
    [][agOp'.via = "direct"
        => /\ Len(passed') <= 5
           /\ passed' = SubSeq(history,
                               Len(history) - Min(5, Len(history)) + 1,
                               Len(history))
           /\ IF agOut'.raised THEN history' = history
              ELSE history' = Append(history,
                                     Interaction(agOp'.arguments["command"],
                                                 agOut'.value))]_vars

\* the seventh task found six interactions, gave the model the last five,
\* ran a tool and stored the final response
C29_Witness ==
    /\ agOp.via = "direct"
    /\ agOp.env = "tools"
    /\ ~agOut.raised
    /\ agOut.value = 7
    /\ Len(history) = 7
    /\ Len(passed) = 5
    /\ passed = SubSeq(history, 2, 6)
    /\ history[7] = Interaction("c1", 7)

\* C30: once the agent exists call_tool never raises: it replies with one
\* text item, "Error executing <name>: ..." when a required argument is
\* missing or the agent, a service or a file failed, and "Unknown tool:
\* <name>" for an unknown name, then leaving memory and state unchanged.
C30_CallToolNeverRaises ==
    [][(agOp'.via = "mcp" /\ _agent # None)
        => /\ Replied(agOp', agOut')
           /\ agOut'.content[1].name = agOp'.name
           /\ (/\ agOp'.name \in ToolNames
               /\ \/ ~(RequiredArgs(agOp'.name) \subseteq DOMAIN agOp'.arguments)
                  \/ agOp'.env \in {"llm_fail", "tool_fail", "final_fail",
                                    "io_fail", "tts_fail"})
                => agOut'.content[1].kind = "error"
           /\ agOp'.name \notin ToolNames
                => /\ agOut'.content[1].kind = "unknown_tool"
                   /\ <<memVars, stVars, last_audio_output>>'
                        = <<memVars, stVars, last_audio_output>>]_vars

\* with two interactions stored, the model failed after a tool had run in
\* an execute_task call: the server replied with the error text
C30_Witness ==
    /\ _agent # None
    /\ Replied(agOp, agOut)
    /\ agOp.name = "execute_task"
    /\ agOp.env = "final_fail"
    /\ agOut.content[1].kind = "error"
    /\ agOut.content[1].name = "execute_task"
    /\ Len(history) = 2
    /\ last_audio_output = "audio"

TypeOK ==
    /\ pc \in {"idle", "open", "start_time", "while", "sleep", "exit",
               "combine"}
    /\ cbpc \in {"idle", "append", "vad", "flags"}
    /\ stream \in {"none", "active", "aborted", "closed"}
    /\ vad.triggered \in BOOLEAN
    /\ Len(audio_chunks) <= MaxChunks
====
